---- MODULE Spec2Model ----
(***************************************************************************)
(* A model of the geometry / style layer of pdf-shape (src/src/traits.rs)  *)
(* and of the Token / Tokens types it is applied to                        *)
(* (src/src/raw_document/mod.rs).                                          *)
(*                                                                         *)
(* Every operation of the library is a pure function of a read-only        *)
(* collection.  A specification therefore draws its input in Init and has  *)
(* one action per operation: the action applies the operation to the input *)
(* and records which operation ran (op) and what it returned (res).        *)
(*                                                                         *)
(* f32 values are modelled by small integers, on which every sum,          *)
(* difference and comparison the code makes is exact in f32.  NaN and the  *)
(* infinities are outside the model.                                       *)
(***************************************************************************)
EXTENDS Integers, Sequences, FiniteSets, TLC

VARIABLES
    tokens,     \* Tokens.tokens: the collection of Token the operation reads
    members,    \* a collection of Style objects (tokens or nested collections)
    reference,  \* the self of Alignement::alignement
    others,     \* the others argument of Alignement::alignement
    op,         \* the operation that was applied, "none" before any
    res         \* what the operation returned

vars == <<tokens, members, reference, others, op, res>>

----------------------------------------------------------------------------
(* Bounds of the model.                                                    *)

\* longest collection given to the Coordinates and Shape operations
MaxShapeLen == 2

\* longest collection given to the Style operations and to the Spacing scans
MaxLen == 3

\* longest list of others given to alignement
MaxOthers == 2

----------------------------------------------------------------------------
(* Option<T>: None is the empty tuple, Some(v) the one-element tuple.      *)

None == <<>>

Some(v) == <<v>>

is_some(o) == o # None

\* all sequences over S of length at most n
SeqsUpTo(S, n) == UNION {[1..k -> S] : k \in 0..n}

----------------------------------------------------------------------------
(* Token (raw_document/mod.rs:136-153): the fields the operations read.    *)

Tok(px, py, pbase, pw, ph, fs, b, i) ==
    [x |-> px, y |-> py, base |-> pbase, width |-> pw, height |-> ph,
     font_size |-> fs, bold |-> b, italic |-> i]

\* inputs of the Shape specification
ShapeToken ==
    {Tok(px, py, py, pw, ph, 1, FALSE, FALSE) :
        px \in 0..1, py \in 0..1, pw \in 0..2, ph \in 0..2}

\* inputs of the Alignement specification: heights and widths that differ
\* by two put two centers on one line at different y or x
AlignToken ==
    {Tok(px, py, py, pw, ph, 1, FALSE, FALSE) :
        px \in 0..1, py \in 0..1, pw \in 0..2, ph \in {0, 2}}

\* inputs of the Style specification
StyleToken ==
    {Tok(0, 0, 0, 0, 0, fs, b, i) :
        fs \in 1..2, b \in BOOLEAN, i \in BOOLEAN}

----------------------------------------------------------------------------
(* impl IntoIterator for Tokens, Tokens::first_token                       *)
(* (raw_document/mod.rs:211-235) and impl Coordinates for Tokens           *)
(* (raw_document/mod.rs:237-252).                                          *)

first_token(objects) == IF objects = <<>> THEN None ELSE Some(objects[1])

Tokens_x(objects) ==
    IF is_some(first_token(objects)) THEN first_token(objects)[1].x ELSE 0

Tokens_y(objects) ==
    IF is_some(first_token(objects)) THEN first_token(objects)[1].y ELSE 0

----------------------------------------------------------------------------
(* slice::sort_by with partial_cmp on one key: a stable sort.              *)

\* s with e inserted after the last element whose key is <= the key of e
RECURSIVE InsertBy(_, _, _)
InsertBy(s, e, k) ==
    IF s = <<>> THEN <<e>>
    ELSE IF s[Len(s)][k] <= e[k] THEN Append(s, e)
    ELSE Append(InsertBy(SubSeq(s, 1, Len(s) - 1), e, k), s[Len(s)])

RECURSIVE sort_by(_, _)
sort_by(s, k) ==
    IF s = <<>> THEN <<>>
    ELSE InsertBy(sort_by(SubSeq(s, 1, Len(s) - 1), k), s[Len(s)], k)

----------------------------------------------------------------------------
(* impl Shape for OBJECTSET (traits.rs:157-231).                           *)

\* width with the upper bound read from the list sorted by x, the second
\* sort left out
width_unsorted_upper(objects) ==
    LET widths == [i \in 1..Len(objects) |->
                      <<objects[i].x, objects[i].width>>]
        sorted == sort_by(widths, 1)
        lower_bound == IF sorted # <<>> THEN sorted[1][1] ELSE 0
        sums == [i \in 1..Len(sorted) |-> <<sorted[i][1] + sorted[i][2]>>]
        upper_bound == IF sums # <<>> THEN sums[Len(sums)][1] ELSE 0
    IN  upper_bound - lower_bound

width(objects) ==
    LET widths == [i \in 1..Len(objects) |->
                      <<objects[i].x, objects[i].width>>]
        sorted == sort_by(widths, 1)
        lower_bound == IF sorted # <<>> THEN sorted[1][1] ELSE 0
        sums == [i \in 1..Len(sorted) |-> <<sorted[i][1] + sorted[i][2]>>]
        sorted2 == sort_by(sums, 1)
        upper_bound == IF sorted2 # <<>> THEN sorted2[Len(sorted2)][1] ELSE 0
    IN  upper_bound - lower_bound

height(objects) ==
    LET heights == [i \in 1..Len(objects) |->
                       <<objects[i].y, objects[i].height>>]
        sorted == sort_by(heights, 1)
        upper_bound == IF sorted # <<>> THEN sorted[Len(sorted)][1] ELSE 0
        diffs == [i \in 1..Len(sorted) |-> <<sorted[i][1] - sorted[i][2]>>]
        sorted2 == sort_by(diffs, 1)
        lower_bound == IF sorted2 # <<>> THEN sorted2[1][1] ELSE 0
    IN  upper_bound - lower_bound

----------------------------------------------------------------------------
(* The Shape specification: Coordinates and Shape of a Tokens collection.  *)

InitShape ==
    /\ tokens \in SeqsUpTo(ShapeToken, MaxShapeLen)
    /\ members = <<>>
    /\ reference = None
    /\ others = <<>>
    /\ op = "none"
    /\ res = None

X ==
    /\ op = "none"
    /\ reference = None
    /\ op' = "x"
    /\ res' = Tokens_x(tokens)
    /\ UNCHANGED <<tokens, members, reference, others>>

Y ==
    /\ op = "none"
    /\ reference = None
    /\ op' = "y"
    /\ res' = Tokens_y(tokens)
    /\ UNCHANGED <<tokens, members, reference, others>>

Width ==
    /\ op = "none"
    /\ reference = None
    /\ op' = "width"
    /\ res' = width(tokens)
    /\ UNCHANGED <<tokens, members, reference, others>>

Height ==
    /\ op = "none"
    /\ reference = None
    /\ op' = "height"
    /\ res' = height(tokens)
    /\ UNCHANGED <<tokens, members, reference, others>>

NextShape == X \/ Y \/ Width \/ Height

SpecShape == InitShape /\ [][NextShape]_vars

----------------------------------------------------------------------------
(* impl Style for Token (raw_document/mod.rs:187-202).                     *)

Token_font_size(t) == Some(t.font_size)

Token_bold(t) == Some(t.bold)

Token_italic(t) == Some(t.italic)

----------------------------------------------------------------------------
(* impl Style for OBJECTSET (traits.rs:82-155).                            *)
(*                                                                         *)
(* A member of a collection is a Token, or a collection of tokens that is  *)
(* itself a Style object through the same blanket implementation.          *)

TokenObject(t) == [kind |-> "Token", token |-> t, tokens |-> <<>>]

TokensObject(ts) == [kind |-> "Tokens", token |-> None, tokens |-> ts]

RECURSIVE font_size(_), bold(_), italic(_)

\* object.font_size(), object.bold(), object.italic(): the member's own impl
object_font_size(o) ==
    IF o.kind = "Token" THEN Token_font_size(o.token) ELSE font_size(o.tokens)

object_bold(o) ==
    IF o.kind = "Token" THEN Token_bold(o.token) ELSE bold(o.tokens)

object_italic(o) ==
    IF o.kind = "Token" THEN Token_italic(o.token) ELSE italic(o.tokens)

\* the for loop of font_size from member i on, last_font_size being last
RECURSIVE font_size_loop(_, _, _)
font_size_loop(objects, i, last) ==
    IF i > Len(objects) THEN last
    ELSE IF is_some(last)
         THEN IF object_font_size(objects[i]) # last THEN None
              ELSE font_size_loop(objects, i + 1, last)
         ELSE font_size_loop(objects, i + 1, object_font_size(objects[i]))

font_size(objects) == font_size_loop(objects, 1, None)

RECURSIVE bold_loop(_, _, _)
bold_loop(objects, i, last) ==
    IF i > Len(objects) THEN last
    ELSE IF is_some(last)
         THEN IF object_bold(objects[i]) # last THEN None
              ELSE bold_loop(objects, i + 1, last)
         ELSE bold_loop(objects, i + 1, object_bold(objects[i]))

\* bold without the early return: the last member's value wins
bold_last_wins(objects) ==
    IF objects = <<>> THEN None ELSE object_bold(objects[Len(objects)])

bold(objects) == bold_loop(objects, 1, None)

RECURSIVE italic_loop(_, _, _)
italic_loop(objects, i, last) ==
    IF i > Len(objects) THEN last
    ELSE IF is_some(last)
         THEN IF object_italic(objects[i]) # last THEN None
              ELSE italic_loop(objects, i + 1, last)
         ELSE italic_loop(objects, i + 1, object_italic(objects[i]))

italic(objects) == italic_loop(objects, 1, None)

RECURSIVE Sum(_)
Sum(s) == IF s = <<>> THEN 0 ELSE s[1] + Sum(Tail(s))

\* stats::mean: the mean as the fraction <<numerator, denominator>>; the
\* OnlineStats it collects into starts with mean 0.0 and returns it when no
\* sample was added
mean(samples) ==
    IF samples = <<>> THEN <<0, 1>> ELSE <<Sum(samples), Len(samples)>>

\* how many items Iterator::all takes from the iterator: up to and including
\* the first None, every item when there is none
all_consumed(o) ==
    IF \E i \in 1..Len(o) : ~is_some(o[i])
    THEN CHOOSE i \in 1..Len(o) :
             /\ ~is_some(o[i])
             /\ \A j \in 1..(i - 1) : is_some(o[j])
    ELSE Len(o)

avg_font_size(objects) ==
    LET o == [i \in 1..Len(objects) |-> object_font_size(objects[i])]
        all_some == \A i \in 1..Len(o) : is_some(o[i])
        \* what is left of the iterator o once all has run over it
        rest == SubSeq(o, all_consumed(o) + 1, Len(o))
        known == SelectSeq(rest, is_some)
        flat == [i \in 1..Len(known) |-> known[i][1]]
    IN  IF all_some THEN Some(mean(flat)) ELSE None

----------------------------------------------------------------------------
(* The Style specification: the Style of a collection of Style objects.    *)

\* the members: every token, and the collections of no token or one token
StyleObject ==
    {TokenObject(t) : t \in StyleToken}
        \cup {TokensObject(<<>>)}
        \cup {TokensObject(<<TokenObject(t)>>) : t \in StyleToken}

InitStyle ==
    /\ members \in SeqsUpTo(StyleObject, MaxLen)
    /\ tokens = <<>>
    /\ reference = None
    /\ others = <<>>
    /\ op = "none"
    /\ res = None

FontSize ==
    /\ op = "none"
    /\ reference = None
    /\ op' = "font_size"
    /\ res' = font_size(members)
    /\ UNCHANGED <<tokens, members, reference, others>>

AvgFontSize ==
    /\ op = "none"
    /\ reference = None
    /\ op' = "avg_font_size"
    /\ res' = avg_font_size(members)
    /\ UNCHANGED <<tokens, members, reference, others>>

Bold ==
    /\ op = "none"
    /\ reference = None
    /\ op' = "bold"
    /\ res' = bold(members)
    /\ UNCHANGED <<tokens, members, reference, others>>

Italic ==
    /\ op = "none"
    /\ reference = None
    /\ op' = "italic"
    /\ res' = italic(members)
    /\ UNCHANGED <<tokens, members, reference, others>>

NextStyle == FontSize \/ AvgFontSize \/ Bold \/ Italic

SpecStyle == InitStyle /\ [][NextStyle]_vars

----------------------------------------------------------------------------
(* Claims on the Style aggregate, checked under SpecStyle.                 *)

\* the member's own value for the accessor the operation aggregates
member_value(name, o) ==
    CASE name = "font_size" -> object_font_size(o)
      [] name = "bold" -> object_bold(o)
      [] name = "italic" -> object_italic(o)

UniformOps == {"font_size", "bold", "italic"}

AllTokens(objects) == \A i \in 1..Len(objects) : objects[i].kind = "Token"

\* C2: on a non-empty collection whose members all have a known font size,
\* avg_font_size() is the arithmetic mean of the members' font sizes (the sum
\* divided by the number of members); with one unknown font size it is None.
C2_AvgFontSizeIsMean ==
    op = "avg_font_size" =>
        LET fs == [i \in 1..Len(members) |-> object_font_size(members[i])]
            known == \A i \in 1..Len(fs) : is_some(fs[i])
        IN  /\ (members # <<>> /\ known) =>
                /\ is_some(res)
                /\ res[1][1] * Len(members) =
                       res[1][2] * Sum([i \in 1..Len(fs) |-> fs[i][1]])
            /\ ~known => res = None

\* C3: font_size(), bold() and italic() of a collection return a known value
\* only if the collection is not empty and every member returns exactly that
\* known value, wherever an unknown or differing member sits.
C3_KnownOnlyWhenUnanimous ==
    (op \in UniformOps /\ is_some(res)) =>
        /\ members # <<>>
        /\ \A i \in 1..Len(members) : member_value(op, members[i]) = res

\* C8: on a non-empty collection of tokens, bold(), italic() and font_size()
\* return Some(v) when every token has the value v and None as soon as one
\* token's value differs from the others.
C8_TokensAgreeOrNone ==
    (op \in UniformOps /\ members # <<>> /\ AllTokens(members)) =>
        res = IF \A i, j \in 1..Len(members) :
                     member_value(op, members[i]) = member_value(op, members[j])
              THEN member_value(op, members[1])
              ELSE None

\* three tokens that are all bold aggregate to Some(true)
C8_Witness ==
    /\ op = "bold"
    /\ Len(members) = 3
    /\ AllTokens(members)
    /\ \A i \in 1..3 : members[i].token.bold
    /\ \E i, j \in 1..3 : members[i].token.font_size # members[j].token.font_size
    /\ res = Some(TRUE)

----------------------------------------------------------------------------
(* Claims on the Shape aggregate, checked under SpecShape.                 *)

\* the largest and the smallest member of a non-empty set of integers
Max(S) == CHOOSE m \in S : \A n \in S : n <= m

Min(S) == CHOOSE m \in S : \A n \in S : m <= n

\* C1: the box made of x(), y(), width() and height() of a non-empty
\* collection contains the box of every member m: m.x >= box.x and
\* m.x + m.width <= box.x + box.width, m.y >= box.y and
\* m.y + m.height <= box.y + box.height, in whatever order the members come.
C1_BoxContainsMembers ==
    /\ (op = "width" /\ tokens # <<>>) =>
           \A i \in 1..Len(tokens) :
               /\ tokens[i].x >= Tokens_x(tokens)
               /\ tokens[i].x + tokens[i].width <= Tokens_x(tokens) + res
    /\ (op = "height" /\ tokens # <<>>) =>
           \A i \in 1..Len(tokens) :
               /\ tokens[i].y >= Tokens_y(tokens)
               /\ tokens[i].y + tokens[i].height <= Tokens_y(tokens) + res

\* C9: width() is the largest x + width minus the smallest x of the members,
\* height() the largest y minus the smallest y - height; both are 0 on the
\* empty collection and the member's own width and height on a collection of
\* one member.
C9_WidthHeightAreExtents ==
    LET n == Len(tokens)
        xs == {tokens[i].x : i \in 1..n}
        rights == {tokens[i].x + tokens[i].width : i \in 1..n}
        ys == {tokens[i].y : i \in 1..n}
        lows == {tokens[i].y - tokens[i].height : i \in 1..n}
    IN  /\ op = "width" =>
            /\ n = 0 => res = 0
            /\ n = 1 => res = tokens[1].width
            /\ n > 0 => res = Max(rights) - Min(xs)
        /\ op = "height" =>
            /\ n = 0 => res = 0
            /\ n = 1 => res = tokens[1].height
            /\ n > 0 => res = Max(ys) - Min(lows)

\* width() of two members where the member that reaches furthest right is
\* the one with the smallest x
C9_Witness ==
    /\ op = "width"
    /\ Len(tokens) = 2
    /\ tokens[1].x < tokens[2].x
    /\ tokens[1].x + tokens[1].width > tokens[2].x + tokens[2].width
    /\ res = tokens[1].width

----------------------------------------------------------------------------
(* trait Alignement (traits.rs:296-374); Token implements it with the      *)
(* default method (raw_document/mod.rs:204).                               *)
(*                                                                         *)
(* The code compares height / 2.0 + y and width / 2.0 + x.  The model      *)
(* compares twice those sums, height + 2 * y and width + 2 * x, which      *)
(* keeps the halves of odd sizes exact.                                    *)

\* twice elem.height() / 2.0 + elem.y()
center_y(o) == o.height + 2 * o.y

\* twice elem.width() / 2.0 + elem.x()
center_x(o) == o.width + 2 * o.x

\* alignement with the checks on x made before the checks on y
alignement_x_first(self, elems) ==
    LET each == 1..Len(elems)
    IN  IF \A i \in each : elems[i].x = self.x
        THEN "VerticalLeftAligned"
        ELSE IF \A i \in each : center_x(elems[i]) = center_x(self)
        THEN "VerticalCenterAlgined"
        ELSE IF \A i \in each : elems[i].width + elems[i].x = self.width + self.x
        THEN "VerticalRightAlgined"
        ELSE IF \A i \in each : elems[i].y = self.y
        THEN "HorizontalAligned"
        ELSE IF \A i \in each : center_y(elems[i]) = center_y(self)
        THEN "HorizontalCenterAligned"
        ELSE IF \A i \in each : elems[i].y = self.y /\ elems[i].x = self.x
        THEN "Alinged"
        ELSE "NonAligned"

\* alignement with the check of Alinged moved to the head of the chain
alignement_aligned_first(self, elems) ==
    LET each == 1..Len(elems)
    IN  IF \A i \in each : elems[i].y = self.y /\ elems[i].x = self.x
        THEN "Alinged"
        ELSE IF \A i \in each : elems[i].y = self.y
        THEN "HorizontalAligned"
        ELSE IF \A i \in each : center_y(elems[i]) = center_y(self)
        THEN "HorizontalCenterAligned"
        ELSE IF \A i \in each : elems[i].x = self.x
        THEN "VerticalLeftAligned"
        ELSE IF \A i \in each : center_x(elems[i]) = center_x(self)
        THEN "VerticalCenterAlgined"
        ELSE IF \A i \in each : elems[i].width + elems[i].x = self.width + self.x
        THEN "VerticalRightAlgined"
        ELSE "NonAligned"

\* others.iter().all(..) is the \A over the elements of the list
alignement(self, elems) ==
    LET each == 1..Len(elems)
    IN  IF \A i \in each : elems[i].y = self.y
        THEN "HorizontalAligned"
        ELSE IF \A i \in each : center_y(elems[i]) = center_y(self)
        THEN "HorizontalCenterAligned"
        ELSE IF \A i \in each : elems[i].x = self.x
        THEN "VerticalLeftAligned"
        ELSE IF \A i \in each : center_x(elems[i]) = center_x(self)
        THEN "VerticalCenterAlgined"
        ELSE IF \A i \in each : elems[i].width + elems[i].x = self.width + self.x
        THEN "VerticalRightAlgined"
        ELSE IF \A i \in each : elems[i].y = self.y /\ elems[i].x = self.x
        THEN "Alinged"
        ELSE "NonAligned"

----------------------------------------------------------------------------
(* The Alignement specification: a token against a list of tokens.         *)

InitAlign ==
    /\ reference \in {Some(t) : t \in AlignToken}
    /\ others \in SeqsUpTo(AlignToken, MaxOthers)
    /\ tokens = <<>>
    /\ members = <<>>
    /\ op = "none"
    /\ res = None

Alignement ==
    /\ op = "none"
    /\ is_some(reference)
    /\ op' = "alignement"
    /\ res' = alignement(reference[1], others)
    /\ UNCHANGED <<tokens, members, reference, others>>

NextAlign == Alignement

SpecAlign == InitAlign /\ [][NextAlign]_vars

----------------------------------------------------------------------------
(* Claims on alignement, checked under SpecAlign.                          *)

\* C4: alignement() with an empty list of others returns NonAligned and no
\* other category.
C4_EmptyOthersNonAligned ==
    (op = "alignement" /\ others = <<>>) => res = "NonAligned"

\* the categories in the order of their priority, NonAligned excepted
Priority ==
    <<"HorizontalAligned", "HorizontalCenterAligned", "VerticalLeftAligned",
      "VerticalCenterAlgined", "VerticalRightAlgined", "Alinged">>

\* the criterion of a category, on the reference r and one other o; the
\* centers y + height/2 and x + width/2 are compared through their doubles
Criterion(c, r, o) ==
    CASE c = "HorizontalAligned" -> o.y = r.y
      [] c = "HorizontalCenterAligned" -> 2 * o.y + o.height = 2 * r.y + r.height
      [] c = "VerticalLeftAligned" -> o.x = r.x
      [] c = "VerticalCenterAlgined" -> 2 * o.x + o.width = 2 * r.x + r.width
      [] c = "VerticalRightAlgined" -> o.x + o.width = r.x + r.width
      [] c = "Alinged" -> o.x = r.x /\ o.y = r.y

\* the criterion of the k-th category holds for all others
HoldsForAll(k) ==
    \A i \in 1..Len(others) : Criterion(Priority[k], reference[1], others[i])

\* C5: with a non-empty list of others alignement() returns the first
\* category, in the fixed order, whose criterion holds for all others, and
\* NonAligned when none holds; others with the reference's y and another x
\* are HorizontalAligned even when a later criterion holds too.
C5_FirstCategoryWins ==
    (op = "alignement" /\ others # <<>>) =>
        /\ \A k \in 1..Len(Priority) :
               (HoldsForAll(k) /\ \A j \in 1..(k - 1) : ~HoldsForAll(j))
                   => res = Priority[k]
        /\ (\A k \in 1..Len(Priority) : ~HoldsForAll(k)) => res = "NonAligned"
        /\ (\A i \in 1..Len(others) :
                others[i].y = reference[1].y /\ others[i].x # reference[1].x)
               => res = "HorizontalAligned"

\* two others on the reference's y, at another x, whose right edges meet the
\* reference's: HorizontalAligned although VerticalRightAligned holds too
C5_Witness ==
    /\ op = "alignement"
    /\ Len(others) = 2
    /\ \A i \in 1..2 :
           /\ others[i].y = reference[1].y
           /\ others[i].x # reference[1].x
           /\ others[i].x + others[i].width = reference[1].x + reference[1].width
    /\ res = "HorizontalAligned"

\* C12: alignement() never returns Alinged: for every reference and every
\* list of others, empty or not, whenever all others have the reference's
\* x and y, the check of HorizontalAligned or of VerticalLeftAligned, both
\* earlier in the chain, holds for all others and the earlier category is
\* returned.
C12_AlignedIsDead ==
    op = "alignement" =>
        /\ res # "Alinged"
        /\ HoldsForAll(6) =>
               /\ HoldsForAll(1) \/ HoldsForAll(3)
               /\ res \in {Priority[1], Priority[3]}

\* two others at the reference's x and y, one of another width
C12_Witness ==
    /\ op = "alignement"
    /\ Len(others) = 2
    /\ HoldsForAll(6)
    /\ others[1].width # reference[1].width
    /\ res = "HorizontalAligned"

----------------------------------------------------------------------------
(* impl Spacing for OBJECTSET (traits.rs:392-480).                         *)

\* *vec.last().unwrap_or(&0.0)
last_or_zero(vec) == IF vec = <<>> THEN 0 ELSE vec[Len(vec)]

\* .filter(|spacing| *spacing > 0.0)
positive(spacing) == spacing > 0

\* the while loop of vertical_spacing from token i on, vec being what was
\* pushed so far
RECURSIVE vertical_spacing_loop(_, _, _)
vertical_spacing_loop(objects, i, vec) ==
    IF i > Len(objects) THEN vec
    ELSE IF i < Len(objects)
         THEN LET current_token == objects[i]
                  next_token == objects[i + 1]
                  spacing == current_token.base
                  last_spacing == last_or_zero(vec)
                  v == <<next_token>>
                  a == alignement(current_token, v)
              IN  IF a = "HorizontalAligned" \/ a = "HorizontalCenterAligned"
                  THEN vertical_spacing_loop(objects, i + 1, vec)
                  ELSE IF spacing > 0 /\ spacing > last_spacing
                       THEN vertical_spacing_loop(objects, i + 1,
                                Append(vec, next_token.y - spacing))
                       ELSE vertical_spacing_loop(objects, i + 1, vec)
         ELSE vertical_spacing_loop(objects, i + 1, vec)

\* the loop with only HorizontalCenterAligned pairs taken as on one line
RECURSIVE vertical_spacing_loop_center_only(_, _, _)
vertical_spacing_loop_center_only(objects, i, vec) ==
    IF i > Len(objects) THEN vec
    ELSE IF i < Len(objects)
         THEN LET current_token == objects[i]
                  next_token == objects[i + 1]
                  spacing == current_token.base
                  last_spacing == last_or_zero(vec)
                  v == <<next_token>>
                  a == alignement(current_token, v)
              IN  IF a = "HorizontalCenterAligned"
                  THEN vertical_spacing_loop_center_only(objects, i + 1, vec)
                  ELSE IF spacing > 0 /\ spacing > last_spacing
                       THEN vertical_spacing_loop_center_only(objects, i + 1,
                                Append(vec, next_token.y - spacing))
                       ELSE vertical_spacing_loop_center_only(objects, i + 1, vec)
         ELSE vertical_spacing_loop_center_only(objects, i + 1, vec)

vertical_spacing_center_only(objects) ==
    SelectSeq(vertical_spacing_loop_center_only(objects, 1, <<>>), positive)

\* the loop with the values that are not positive dropped as they are
\* computed, so that they never are the last spacing
RECURSIVE vertical_spacing_loop_filter_first(_, _, _)
vertical_spacing_loop_filter_first(objects, i, vec) ==
    IF i > Len(objects) THEN vec
    ELSE IF i < Len(objects)
         THEN LET current_token == objects[i]
                  next_token == objects[i + 1]
                  spacing == current_token.base
                  last_spacing == last_or_zero(vec)
                  v == <<next_token>>
                  a == alignement(current_token, v)
              IN  IF a = "HorizontalAligned" \/ a = "HorizontalCenterAligned"
                  THEN vertical_spacing_loop_filter_first(objects, i + 1, vec)
                  ELSE IF /\ spacing > 0
                          /\ spacing > last_spacing
                          /\ positive(next_token.y - spacing)
                       THEN vertical_spacing_loop_filter_first(objects, i + 1,
                                Append(vec, next_token.y - spacing))
                       ELSE vertical_spacing_loop_filter_first(objects, i + 1, vec)
         ELSE vertical_spacing_loop_filter_first(objects, i + 1, vec)

vertical_spacing_filter_first(objects) ==
    vertical_spacing_loop_filter_first(objects, 1, <<>>)

vertical_spacing(objects) ==
    SelectSeq(vertical_spacing_loop(objects, 1, <<>>), positive)

\* the while loop of horizontal_spacing from token i on
RECURSIVE horizontal_spacing_loop(_, _, _)
horizontal_spacing_loop(objects, i, vec) ==
    IF i > Len(objects) THEN vec
    ELSE IF i < Len(objects)
         THEN LET current_token == objects[i]
                  next_token == objects[i + 1]
                  spacing == current_token.x + current_token.width
                  last_spacing == last_or_zero(vec)
                  v == <<next_token>>
              IN  IF /\ \/ "HorizontalAligned" = alignement(current_token, v)
                        \/ "HorizontalCenterAligned" = alignement(current_token, v)
                     /\ spacing > 0
                     /\ spacing > last_spacing
                  THEN horizontal_spacing_loop(objects, i + 1,
                           Append(vec, next_token.x - spacing))
                  ELSE horizontal_spacing_loop(objects, i + 1, vec)
         ELSE horizontal_spacing_loop(objects, i + 1, vec)

\* the loop without the comparison to the last value pushed
RECURSIVE horizontal_spacing_loop_no_last(_, _, _)
horizontal_spacing_loop_no_last(objects, i, vec) ==
    IF i > Len(objects) THEN vec
    ELSE IF i < Len(objects)
         THEN LET current_token == objects[i]
                  next_token == objects[i + 1]
                  spacing == current_token.x + current_token.width
                  v == <<next_token>>
              IN  IF /\ \/ "HorizontalAligned" = alignement(current_token, v)
                        \/ "HorizontalCenterAligned" = alignement(current_token, v)
                     /\ spacing > 0
                  THEN horizontal_spacing_loop_no_last(objects, i + 1,
                           Append(vec, next_token.x - spacing))
                  ELSE horizontal_spacing_loop_no_last(objects, i + 1, vec)
         ELSE horizontal_spacing_loop_no_last(objects, i + 1, vec)

horizontal_spacing_no_last(objects) ==
    SelectSeq(horizontal_spacing_loop_no_last(objects, 1, <<>>), positive)

horizontal_spacing(objects) ==
    SelectSeq(horizontal_spacing_loop(objects, 1, <<>>), positive)

----------------------------------------------------------------------------
(* Modal spacing (traits.rs:435-438, 476-479): f32::round on every         *)
(* spacing, then stats::mode.                                              *)
(*                                                                         *)
(* The scans and alignement only add, subtract and compare, so they are    *)
(* the same in whatever unit the integers count.  round is not: it reads   *)
(* the integers as halves of a point, so that a spacing can lie halfway    *)
(* between two whole numbers of points.                                    *)

\* f32::round, on a number of halves: the nearest whole number of points,
\* halfway cases away from zero
round(value) ==
    IF value >= 0 THEN ((value + 1) \div 2) * 2
    ELSE 0 - (((1 - value) \div 2) * 2)

\* the loop of stats' mode_on_sorted from sample i on: mode and next are the
\* candidates, mode_count and next_count one less than how often each was seen
RECURSIVE mode_on_sorted_loop(_, _, _, _, _, _)
mode_on_sorted_loop(it, i, mode, next, mode_count, next_count) ==
    IF i > Len(it) THEN mode
    ELSE LET x == it[i]
             is_mode == mode = Some(x)
             is_next == ~is_mode /\ next = Some(x)
             mode_count1 == IF is_mode THEN mode_count + 1 ELSE mode_count
             next_count1 == IF is_mode THEN next_count
                            ELSE IF is_next THEN next_count + 1
                            ELSE 0
             next1 == IF is_mode \/ is_next THEN next ELSE Some(x)
         IN  IF next_count1 > mode_count1
             THEN mode_on_sorted_loop(it, i + 1, next1, None, next_count1, 0)
             ELSE IF next_count1 = mode_count1
             THEN mode_on_sorted_loop(it, i + 1, None, next1, 0, next_count1)
             ELSE mode_on_sorted_loop(it, i + 1, mode, next1,
                                      mode_count1, next_count1)

\* stats::mode: collects the samples, sorts them and runs mode_on_sorted
mode(samples) ==
    LET data == sort_by([i \in 1..Len(samples) |-> <<samples[i]>>], 1)
        sorted == [i \in 1..Len(data) |-> data[i][1]]
    IN  mode_on_sorted_loop(sorted, 1, None, None, 0, 0)

mode_vertical_spacing(objects) ==
    LET spacings == vertical_spacing(objects)
    IN  mode([i \in 1..Len(spacings) |-> round(spacings[i])])

mode_horizontal_spacing(objects) ==
    LET spacings == horizontal_spacing(objects)
    IN  mode([i \in 1..Len(spacings) |-> round(spacings[i])])

----------------------------------------------------------------------------
(* The Spacing specification: the scans of a Tokens collection and their   *)
(* modal values.                                                           *)

\* tokens that vary along a line: x, width, and the y and height that put
\* two tokens on one line or not; base is on y
LineToken ==
    {Tok(px, py, py, pw, ph, 1, FALSE, FALSE) :
        px \in 0..2, py \in 0..1, pw \in 0..1, ph \in {0, 2}}

\* tokens that vary down a page: y, base and height
ColumnToken ==
    {Tok(0, py, pbase, 0, ph, 1, FALSE, FALSE) :
        py \in 0..2, pbase \in 0..2, ph \in {0, 2}}

\* two tokens on one line, at x=0 and x=20, both 10 wide
TwoOnOneLine ==
    <<Tok(0, 0, 0, 10, 0, 1, FALSE, FALSE), Tok(20, 0, 0, 10, 0, 1, FALSE, FALSE)>>

\* two lines of two tokens; on the second line current.x + current.width
\* is not above the spacing the first line recorded
TwoLines ==
    <<Tok(0, 0, 0, 1, 0, 1, FALSE, FALSE), Tok(2, 0, 0, 0, 0, 1, FALSE, FALSE),
      Tok(1, 1, 1, 0, 0, 1, FALSE, FALSE), Tok(2, 1, 1, 0, 0, 1, FALSE, FALSE)>>

\* tokens of a ruled page, in halves of a point: words 4 wide on one line,
\* 3, 4 and 4 apart, and lines whose base is 3 under their y, 3, 4 and 4
\* under the base of the line before
RuledToken ==
    {Tok(px, 0, 3, 4, 0, 1, FALSE, FALSE) : px \in {0, 7, 15, 23}}
        \cup {Tok(0, py, py + 3, 4, 0, 1, FALSE, FALSE) : py \in {6, 13, 20}}

\* four lines; the gap the second one records is negative, and is the last
\* one recorded when the third one is scanned
BackAndForth ==
    <<Tok(0, 0, 1, 0, 0, 1, FALSE, FALSE), Tok(0, 2, 2, 0, 0, 1, FALSE, FALSE),
      Tok(0, 1, 1, 0, 0, 1, FALSE, FALSE), Tok(0, 2, 2, 0, 0, 1, FALSE, FALSE)>>

\* four words on one line, 3, 4 and 11 halves of a point apart
FourWords ==
    <<Tok(0, 0, 3, 4, 0, 1, FALSE, FALSE), Tok(7, 0, 3, 4, 0, 1, FALSE, FALSE),
      Tok(15, 0, 3, 4, 0, 1, FALSE, FALSE), Tok(30, 0, 3, 4, 0, 1, FALSE, FALSE)>>

\* the word 4 wide that starts at px on the line y = 0
Word(px) == Tok(px, 0, 3, 4, 0, 1, FALSE, FALSE)

\* nine words on one line, in halves of a point: three times 1 point apart,
\* three times 2 points apart and twice 3 points apart
NineWords ==
    <<Word(0), Word(6), Word(12), Word(18), Word(26), Word(34), Word(42),
      Word(52), Word(62)>>

InitSpacing ==
    /\ tokens \in SeqsUpTo(LineToken, MaxLen)
                      \cup SeqsUpTo(ColumnToken, MaxLen)
                      \cup SeqsUpTo(RuledToken, MaxLen)
                      \cup {TwoOnOneLine, TwoLines, BackAndForth, FourWords,
                            NineWords}
    /\ members = <<>>
    /\ reference = None
    /\ others = <<>>
    /\ op = "none"
    /\ res = None

VerticalSpacing ==
    /\ op = "none"
    /\ reference = None
    /\ op' = "vertical_spacing"
    /\ res' = vertical_spacing(tokens)
    /\ UNCHANGED <<tokens, members, reference, others>>

HorizontalSpacing ==
    /\ op = "none"
    /\ reference = None
    /\ op' = "horizontal_spacing"
    /\ res' = horizontal_spacing(tokens)
    /\ UNCHANGED <<tokens, members, reference, others>>

ModeVerticalSpacing ==
    /\ op = "none"
    /\ reference = None
    /\ op' = "mode_vertical_spacing"
    /\ res' = mode_vertical_spacing(tokens)
    /\ UNCHANGED <<tokens, members, reference, others>>

ModeHorizontalSpacing ==
    /\ op = "none"
    /\ reference = None
    /\ op' = "mode_horizontal_spacing"
    /\ res' = mode_horizontal_spacing(tokens)
    /\ UNCHANGED <<tokens, members, reference, others>>

NextSpacing ==
    \/ VerticalSpacing
    \/ HorizontalSpacing
    \/ ModeVerticalSpacing
    \/ ModeHorizontalSpacing

SpecSpacing == InitSpacing /\ [][NextSpacing]_vars

----------------------------------------------------------------------------
(* Claims on the Spacing scans, checked under SpecSpacing.                 *)

C7_SameLineNoVerticalSpacing ==
    op = "vertical_spacing" =>
        LET n == Len(tokens)
            other_y == {i \in 1..(n - 1) : tokens[i].y # tokens[i + 1].y}
        IN  /\ Len(res) <= Cardinality(other_y)
            /\ other_y = {} => res = <<>>

\* three tokens on one y, of different heights, whose bases are positive and
\* above the next token's y
C7_Witness ==
    /\ op = "vertical_spacing"
    /\ Len(tokens) = 3
    /\ \A i \in 1..2 :
           /\ tokens[i].y = tokens[i + 1].y
           /\ tokens[i].height # tokens[i + 1].height
           /\ tokens[i].base > 0
           /\ tokens[i + 1].y - tokens[i].base > 0
    /\ res = <<>>

Nearest(v) ==
    LET Abs(n) == IF n >= 0 THEN n ELSE 0 - n
        whole == {r \in (v - 1)..(v + 1) : r % 2 = 0}
    IN  CHOOSE r \in whole :
            \A q \in whole :
                \/ Abs(r - v) < Abs(q - v)
                \/ Abs(r - v) = Abs(q - v) /\ Abs(r) >= Abs(q)

ModeOps == {"mode_vertical_spacing", "mode_horizontal_spacing"}

\* the spacing list the modal operation op reads
SpacingsOf(name) ==
    IF name = "mode_vertical_spacing" THEN vertical_spacing(tokens)
    ELSE horizontal_spacing(tokens)

\* C11: mode_vertical_spacing() and mode_horizontal_spacing() round every
\* value of the spacing list to the nearest integer and return the single
\* most frequent rounded value: no rounded value is more frequent than the
\* one returned, and a value more frequent than every other is returned;
\* they return none when the list is empty or no rounded value repeats.
C11_ModeIsMostFrequent ==
    op \in ModeOps =>
        LET spacings == SpacingsOf(op)
            rounded == [i \in 1..Len(spacings) |-> Nearest(spacings[i])]
            values == {rounded[i] : i \in 1..Len(rounded)}
            count(v) == Cardinality({i \in 1..Len(rounded) : rounded[i] = v})
        IN  /\ (\A v \in values : count(v) = 1) => res = None
            /\ is_some(res) =>
                   /\ res[1] \in values
                   /\ \A w \in values : count(w) <= count(res[1])
            /\ \A v \in values :
                   (count(v) >= 2 /\ \A w \in values \ {v} : count(w) < count(v))
                       => res = Some(v)

----------------------------------------------------------------------------
(* The whole library: every operation, on every input of the               *)
(* specifications above.                                                   *)

Init == InitShape \/ InitStyle \/ InitAlign \/ InitSpacing

Next == NextShape \/ NextStyle \/ NextAlign \/ NextSpacing

Spec == Init /\ [][Next]_vars

----------------------------------------------------------------------------
(* Claims on the aggregates as functions of the collection, checked under  *)
(* Spec.                                                                   *)

\* every reordering of the collection s
Reorderings(s) ==
    LET n == Len(s)
        shuffles == {p \in [1..n -> 1..n] :
                        \A a, b \in 1..n : a # b => p[a] # p[b]}
    IN  {[i \in 1..n |-> s[p[i]]] : p \in shuffles}

\* C10: width() and height() are the same on every permutation of a
\* collection, and so are font_size(), bold() and italic(), also when
\* members have an unknown style value.
C10_OrderIndependent ==
    /\ op = "width" => \A p \in Reorderings(tokens) : width(p) = res
    /\ op = "height" => \A p \in Reorderings(tokens) : height(p) = res
    /\ op = "font_size" => \A p \in Reorderings(members) : font_size(p) = res
    /\ op = "bold" => \A p \in Reorderings(members) : bold(p) = res
    /\ op = "italic" => \A p \in Reorderings(members) : italic(p) = res

====
